---- MODULE Spec2Model ----
(***************************************************************************)
(* Model of the domino pip counter (app.js): the DBSCAN-light clustering   *)
(* routine, the contour filter of analyzeFrame, and the browser event loop *)
(* that drives analyzeFrame from the snap button, the live timer and the   *)
(* sliders.                                                                *)
(*                                                                         *)
(* Array indices are 1-based here (JS index j is j+1); cluster ids keep    *)
(* the 0-based values of the code.  A tile is a sequence of point indices: *)
(* the code pushes the point objects themselves, and the object at index i *)
(* is identified by i.                                                     *)
(***************************************************************************)
EXTENDS Integers, Sequences, FiniteSets, TLC

\* ---- bounds of the model ----
MaxN      == 3   \* longest point list given to dbscan
MaxCoord  == 2   \* x coordinates are 0..MaxCoord
MaxEps    == 2   \* eps is 0..MaxEps
MaxMinPts == 3   \* minPts is 1..MaxMinPts
MaxContours == 2 \* most contours found in one frame
MaxAreaVal == 2  \* the area sliders take the values 1..MaxAreaVal
MaxPending == 2  \* most events waiting in the browser's task queues
MaxR       == 2  \* radii of the dots handed to drawOverlay are 1..MaxR

\* ---- program constants ----
DefaultMinArea == 30    \* let MIN_AREA = 30
DefaultMaxArea == 5000  \* let MAX_AREA = 5000
MIN_PTS        == 1     \* const MIN_PTS = 1
Pad            == 10    \* const pad = 10

\* ---- label sentinels of dbscan ----
UNDEFINED == -2  \* labels[i] === undefined (no label yet)
NOISE     == -1  \* labels[i] === -1 ("brus")

VARIABLES
    db,               \* locals of a dbscan call followed step by step
    hostDefinesStart, \* whether the page defines a global startWhenCvReady (app.js does not)
    scriptPc,         \* "loading" | "done" | "threw": evaluation of app.js
    listeners,        \* the elements that have got their listener from app.js
    startPc,          \* progress of the startCam click handler (async)
    cvReady,
    video,            \* <<videoWidth, videoHeight>>
    work,             \* <<work.width, work.height>>
    btnSnapDisabled,
    liveChecked,      \* liveChk.checked
    liveTimer,        \* TRUE when liveTimer holds a running interval
    minRange,         \* minRange.value
    maxRange,         \* maxRange.value
    MIN_AREA,
    MAX_AREA,
    EPS,              \* << >> for null, <<v>> for the number v
    pending,          \* kinds of events waiting to be dispatched
    depth,            \* analyzeFrame activations in progress
    an,               \* locals of the analyzeFrame activation in progress
    out,              \* the latest result handed to prettyPrint
    overlay,          \* what drawOverlay has drawn last: rings and labelled boxes
    lastClick         \* history: what the latest click on the enabled snap button did

vars == <<db, hostDefinesStart, scriptPc, listeners, startPc, cvReady, video, work,
          btnSnapDisabled, liveChecked, liveTimer, minRange, maxRange,
          MIN_AREA, MAX_AREA, EPS, pending, depth, an, out, overlay, lastClick>>

appVars == <<hostDefinesStart, scriptPc, listeners, startPc, cvReady, video, work,
             btnSnapDisabled, liveChecked, liveTimer, minRange, maxRange,
             MIN_AREA, MAX_AREA, EPS, pending, depth, an, out, overlay, lastClick>>

\* ------------------------------------------------------------------------
\* helpers
\* ------------------------------------------------------------------------
Range(s) == {s[k] : k \in 1..Len(s)}

Indices(n) == [k \in 1..n |-> k]

\* A number of the program is an integer or the value NaN.  Arithmetic on NaN
\* gives NaN and every comparison with NaN is false.
NaN == -999

IsNaN(v) == v = NaN

Minus(a, b) == IF IsNaN(a) \/ IsNaN(b) THEN NaN ELSE a - b

Plus(a, b) == IF IsNaN(a) \/ IsNaN(b) THEN NaN ELSE a + b

Times(a, b) == IF IsNaN(a) \/ IsNaN(b) THEN NaN ELSE a * b

LessEq(a, b) == ~ IsNaN(a) /\ ~ IsNaN(b) /\ a <= b

\* Math.min, Math.max
MathMin(a, b) == IF IsNaN(a) \/ IsNaN(b) THEN NaN ELSE IF a <= b THEN a ELSE b

MathMax(a, b) == IF IsNaN(a) \/ IsNaN(b) THEN NaN ELSE IF a >= b THEN a ELSE b

\* points: [{x,y,r}]
Coords == (0..MaxCoord) \X (0..1)

PointOf(c) == [x |-> c[1], y |-> c[2], r |-> 1]

PointLists == UNION {[1..n -> {PointOf(c) : c \in Coords}] : n \in 0..MaxN}

\* ------------------------------------------------------------------------
\* dbscan(points, eps, minPts)
\* ------------------------------------------------------------------------

\* the test of regionQuery: (dx*dx + dy*dy) <= eps*eps
WithinChebyshev(p, q, eps) ==
    LET dx == p.x - q.x
        dy == p.y - q.y
    IN  dx * dx <= eps * eps /\ dy * dy <= eps * eps

WithinStrict(p, q, eps) ==
    LET dx == p.x - q.x
        dy == p.y - q.y
    IN  (dx * dx + dy * dy) < eps * eps

Within(p, q, eps) ==
    LET dx == Minus(p.x, q.x)
        dy == Minus(p.y, q.y)
    IN  LessEq(Plus(Times(dx, dx), Times(dy, dy)), eps * eps)

regionQueryOthers(points, eps, i) ==
    SelectSeq(Indices(Len(points)), LAMBDA j : j # i /\ Within(points[i], points[j], eps))

\* regionQuery(i): the indices j, ascending, that pass the test against i
regionQuery(points, eps, i) ==
    SelectSeq(Indices(Len(points)), LAMBDA j : Within(points[i], points[j], eps))

\* new Set(neighbors); seeds.delete(i)   (a Set iterates in insertion order)
SeedsOf(neighbors, i) == SelectSeq(neighbors, LAMBDA j : j # i)

\* nbs2.forEach(x => seeds.add(x)): members already present keep their place
AddAllNone(seeds, nbs2) == seeds

AddAllAgain(seeds, nbs2) == seeds \o nbs2

AddAll(seeds, nbs2) == seeds \o SelectSeq(nbs2, LAMBDA x : x \notin Range(seeds))

\* state on entry of dbscan, before the main loop
DbscanEntry(points, eps, minPts) ==
    [ points     |-> points,
      eps        |-> eps,
      minPts     |-> minPts,
      visited    |-> [k \in 1..Len(points) |-> FALSE],
      labels     |-> [k \in 1..Len(points) |-> UNDEFINED],
      C          |-> 0,
      clusters   |-> << >>,
      i          |-> 1,
      clusterIdx |-> 0,
      seeds      |-> << >>,
      pos        |-> 1,
      q          |-> 0,       \* argument of the latest regionQuery call (0: none yet)
      neighbors  |-> << >>,   \* its result (the local neighbors / nbs2)
      seedPoint  |-> << >>,   \* history: seedPoint[c+1] = the i at which id c was allocated
      queries    |-> [k \in 1..Len(points) |-> 0],  \* history: regionQuery calls per point
      drawn      |-> << >>,   \* history: the points the current expansion has drawn, in order
      pc         |-> "main" ]

MainLoopStepEarlyId(s) ==
    IF s.i > Len(s.points) THEN [s EXCEPT !.pc = "group"]
    ELSE IF s.visited[s.i] THEN [s EXCEPT !.i = s.i + 1]
    ELSE LET neighbors == regionQuery(s.points, s.eps, s.i)
         IN  IF Len(neighbors) < s.minPts
             THEN [s EXCEPT !.visited[s.i] = TRUE,
                            !.q            = s.i,
                            !.neighbors    = neighbors,
                            !.queries[s.i] = @ + 1,
                            !.clusterIdx   = s.C,
                            !.C            = s.C + 1,
                            !.seedPoint    = Append(s.seedPoint, s.i),
                            !.labels[s.i]  = NOISE,
                            !.i            = s.i + 1]
             ELSE [s EXCEPT !.visited[s.i] = TRUE,
                            !.q            = s.i,
                            !.neighbors    = neighbors,
                            !.queries[s.i] = @ + 1,
                            !.drawn        = << >>,
                            !.clusterIdx   = s.C,
                            !.C            = s.C + 1,
                            !.labels[s.i]  = s.C,
                            !.seedPoint    = Append(s.seedPoint, s.i),
                            !.seeds        = SeedsOf(neighbors, s.i),
                            !.pos          = 1,
                            !.pc           = "expand"]

MainLoopStepNoiseUnset(s) ==
    IF s.i > Len(s.points) THEN [s EXCEPT !.pc = "group"]
    ELSE IF s.visited[s.i] THEN [s EXCEPT !.i = s.i + 1]
    ELSE LET neighbors == regionQuery(s.points, s.eps, s.i)
         IN  IF Len(neighbors) < s.minPts
             THEN [s EXCEPT !.visited[s.i] = TRUE,
                            !.q            = s.i,
                            !.neighbors    = neighbors,
                            !.queries[s.i] = @ + 1,
                            !.i            = s.i + 1]
             ELSE [s EXCEPT !.visited[s.i] = TRUE,
                            !.q            = s.i,
                            !.neighbors    = neighbors,
                            !.queries[s.i] = @ + 1,
                            !.drawn        = << >>,
                            !.clusterIdx   = s.C,
                            !.C            = s.C + 1,
                            !.labels[s.i]  = s.C,
                            !.seedPoint    = Append(s.seedPoint, s.i),
                            !.seeds        = SeedsOf(neighbors, s.i),
                            !.pos          = 1,
                            !.pc           = "expand"]

\* one iteration of  for (let i=0; i<N; i++) { ... }  up to the start of the
\* expansion loop (or the loop exit when i has reached N)
MainLoopStep(s) ==
    IF s.i > Len(s.points) THEN [s EXCEPT !.pc = "group"]
    ELSE IF s.visited[s.i] THEN [s EXCEPT !.i = s.i + 1]
    ELSE LET neighbors == regionQuery(s.points, s.eps, s.i)
         IN  IF Len(neighbors) < s.minPts
             THEN [s EXCEPT !.visited[s.i] = TRUE,
                            !.q            = s.i,
                            !.neighbors    = neighbors,
                            !.queries[s.i] = @ + 1,
                            !.labels[s.i]  = NOISE,
                            !.i            = s.i + 1]
             ELSE [s EXCEPT !.visited[s.i] = TRUE,
                            !.q            = s.i,
                            !.neighbors    = neighbors,
                            !.queries[s.i] = @ + 1,
                            !.drawn        = << >>,
                            !.clusterIdx   = s.C,
                            !.C            = s.C + 1,
                            !.labels[s.i]  = s.C,
                            !.seedPoint    = Append(s.seedPoint, s.i),
                            !.seeds        = SeedsOf(neighbors, s.i),
                            !.pos          = 1,
                            !.pc           = "expand"]

ExpandStepKeepNoise(s) ==
    IF s.pos > Len(s.seeds) THEN [s EXCEPT !.i = s.i + 1, !.pc = "main"]
    ELSE LET n       == s.seeds[s.pos]
             fresh   == ~ s.visited[n]
             nbs2    == regionQuery(s.points, s.eps, n)
             seeds2  == IF fresh /\ Len(nbs2) >= s.minPts
                        THEN AddAll(s.seeds, nbs2) ELSE s.seeds
             relabel == s.labels[n] = UNDEFINED
         IN  [s EXCEPT !.visited[n] = TRUE,
                       !.q          = IF fresh THEN n ELSE @,
                       !.neighbors  = IF fresh THEN nbs2 ELSE @,
                       !.queries[n] = IF fresh THEN @ + 1 ELSE @,
                       !.drawn      = Append(@, n),
                       !.seeds      = seeds2,
                       !.labels[n]  = IF relabel THEN s.clusterIdx ELSE @,
                       !.pos        = s.pos + 1]

DrawSeedStopAtBorder(s, n) ==
    LET fresh   == ~ s.visited[n]
        nbs2    == regionQuery(s.points, s.eps, n)
        seeds2  == IF fresh /\ Len(nbs2) >= s.minPts
                   THEN AddAll(s.seeds, nbs2)
                   ELSE IF fresh
                        THEN SelectSeq(s.seeds, LAMBDA x : x = n \/ x \in Range(s.drawn))
                        ELSE s.seeds
        relabel == s.labels[n] = UNDEFINED \/ s.labels[n] = NOISE
    IN  [s EXCEPT !.visited[n] = TRUE,
                  !.q          = IF fresh THEN n ELSE @,
                  !.neighbors  = IF fresh THEN nbs2 ELSE @,
                  !.queries[n] = IF fresh THEN @ + 1 ELSE @,
                  !.drawn      = Append(@, n),
                  !.seeds      = seeds2,
                  !.labels[n]  = IF relabel THEN s.clusterIdx ELSE @]

DrawSeedOverwrite(s, n) ==
    LET fresh   == ~ s.visited[n]
        nbs2    == regionQuery(s.points, s.eps, n)
        seeds2  == IF fresh /\ Len(nbs2) >= s.minPts
                   THEN AddAll(s.seeds, nbs2) ELSE s.seeds
    IN  [s EXCEPT !.visited[n] = TRUE,
                  !.q          = IF fresh THEN n ELSE @,
                  !.neighbors  = IF fresh THEN nbs2 ELSE @,
                  !.queries[n] = IF fresh THEN @ + 1 ELSE @,
                  !.drawn      = Append(@, n),
                  !.seeds      = seeds2,
                  !.labels[n]  = s.clusterIdx]

\* the body of  for (const n of seeds) { ... }  for the drawn point n
DrawSeed(s, n) ==
    LET fresh   == ~ s.visited[n]
        nbs2    == regionQuery(s.points, s.eps, n)
        seeds2  == IF fresh /\ Len(nbs2) >= s.minPts
                   THEN AddAll(s.seeds, nbs2) ELSE s.seeds
        relabel == s.labels[n] = UNDEFINED \/ s.labels[n] = NOISE
    IN  [s EXCEPT !.visited[n] = TRUE,
                  !.q          = IF fresh THEN n ELSE @,
                  !.neighbors  = IF fresh THEN nbs2 ELSE @,
                  !.queries[n] = IF fresh THEN @ + 1 ELSE @,
                  !.drawn      = Append(@, n),
                  !.seeds      = seeds2,
                  !.labels[n]  = IF relabel THEN s.clusterIdx ELSE @]

\* one iteration of  for (const n of seeds) { ... }, or its exit: the Set's
\* iterator hands out the members in insertion order
ExpandStep(s) ==
    IF s.pos > Len(s.seeds) THEN [s EXCEPT !.i = s.i + 1, !.pc = "main"]
    ELSE [DrawSeed(s, s.seeds[s.pos]) EXCEPT !.pos = s.pos + 1]

\* for (let c=0; c<C; c++) clusters.push([])
RECURSIVE EmptyLists(_)
EmptyLists(C) == IF C = 0 THEN << >> ELSE Append(EmptyLists(C - 1), << >>)

\* for (let i=0; i<N; i++) { lab = labels[i]; push ... }  from index i on
RECURSIVE PushLabels(_, _, _)
PushLabels(clusters, labels, i) ==
    IF i > Len(labels) THEN clusters
    ELSE LET lab == labels[i]
         IN  IF lab = UNDEFINED \/ lab = NOISE
             THEN PushLabels(Append(clusters, <<i>>), labels, i + 1)
             ELSE PushLabels([clusters EXCEPT ![lab + 1] = Append(@, i)], labels, i + 1)

RECURSIVE PushLabelsDropNoise(_, _, _)
PushLabelsDropNoise(clusters, labels, i) ==
    IF i > Len(labels) THEN clusters
    ELSE LET lab == labels[i]
         IN  IF lab = UNDEFINED \/ lab = NOISE
             THEN PushLabelsDropNoise(clusters, labels, i + 1)
             ELSE PushLabelsDropNoise([clusters EXCEPT ![lab + 1] = Append(@, i)],
                                      labels, i + 1)

\* labels -> cluster lists, then  clusters.filter(arr => arr.length > 0)
GroupLabelsLoneFirst(labels, C) ==
    LET lone == SelectSeq(Indices(Len(labels)),
                          LAMBDA i : labels[i] = UNDEFINED \/ labels[i] = NOISE)
        rest == PushLabelsDropNoise(EmptyLists(C), labels, 1)
    IN  SelectSeq([k \in 1..Len(lone) |-> <<lone[k]>>] \o rest,
                  LAMBDA arr : Len(arr) > 0)

GroupLabelsDropNoise(labels, C) ==
    SelectSeq(PushLabelsDropNoise(EmptyLists(C), labels, 1),
              LAMBDA arr : Len(arr) > 0)

GroupLabels(labels, C) ==
    SelectSeq(PushLabels(EmptyLists(C), labels, 1),
              LAMBDA arr : Len(arr) > 0)

GroupStep(s) == [s EXCEPT !.clusters = GroupLabels(s.labels, s.C), !.pc = "done"]

\* the whole call, run to its return
RECURSIVE DbscanRun(_)
DbscanRun(s) ==
    IF s.pc = "main" THEN DbscanRun(MainLoopStep(s))
    ELSE IF s.pc = "expand" THEN DbscanRun(ExpandStep(s))
    ELSE IF s.pc = "group" THEN DbscanRun(GroupStep(s))
    ELSE s

dbscan(points, eps, minPts) == DbscanRun(DbscanEntry(points, eps, minPts)).clusters

\* ------------------------------------------------------------------------
\* analyzeFrame
\* ------------------------------------------------------------------------

\* A contour as the filter sees it: contourArea, boundingRect, and the circle
\* of minEnclosingCircle.  The k-th contour of a frame has its centre at
\* column (k-1) mod (MaxCoord+1) of row 0.
Contour(area, box, k) ==
    [area |-> area, width |-> box[1], height |-> box[2],
     x |-> (k - 1) % (MaxCoord + 1), y |-> 0, r |-> 1]

Frames(areas, boxes) ==
    UNION { { [k \in 1..n |-> Contour(f[k][1], f[k][2], k)] : f \in [1..n -> areas \X boxes] }
            : n \in 0..MaxContours }

\* bounding boxes <<width, height>> on and around the ratio limits 0.5 and 2.0
Boxes == { <<1, 1>>, <<1, 2>>, <<2, 1>>, <<2, 3>>, <<3, 1>> }

\* the frames the camera delivers to the running application
CameraFrames == Frames({2}, { <<1, 1>> })

\* rect.width / rect.height, kept as the exact fraction
Ratio(c) == <<c.width, c.height>>

\* ratio > 0.5  and  ratio < 2.0   (0.5 = 1/2, 2.0 = 2/1; height > 0)
RatioAbove(ratio, num, den) == ratio[1] * den > num * ratio[2]

RatioBelow(ratio, num, den) == ratio[1] * den < num * ratio[2]

\* the two nested tests of the filter loop
PassesInclusiveRatio(c, minArea, maxArea) ==
    IF c.area >= minArea /\ c.area <= maxArea
    THEN ~ RatioBelow(Ratio(c), 1, 2) /\ ~ RatioAbove(Ratio(c), 2, 1)
    ELSE FALSE

Passes(c, minArea, maxArea) ==
    IF c.area >= minArea /\ c.area <= maxArea
    THEN RatioAbove(Ratio(c), 1, 2) /\ RatioBelow(Ratio(c), 2, 1)
    ELSE FALSE

\* Math.round(Math.max(w, h) * 0.065)
AutoEps(size) ==
    LET m == IF size[1] >= size[2] THEN size[1] ELSE size[2]
    IN  (m * 65 + 500) \div 1000

EpsOrAutoFalsy(e, size) == IF e = << >> \/ e = <<0>> THEN AutoEps(size) ELSE e[1]

\* EPS ?? Math.round(Math.max(work.width, work.height) * 0.065)
EpsOrAuto(e, size) == IF e = << >> THEN AutoEps(size) ELSE e[1]

RECURSIVE MapLengthOnes(_)
MapLengthOnes(clusters) ==
    IF clusters = << >> THEN << >>
    ELSE <<1>> \o MapLengthOnes(Tail(clusters))

\* clusters.map(c => c.length)
RECURSIVE MapLength(_)
MapLength(clusters) ==
    IF clusters = << >> THEN << >>
    ELSE <<Len(Head(clusters))>> \o MapLength(Tail(clusters))

\* ------------------------------------------------------------------------
\* drawOverlay(dots, clusters)
\* ------------------------------------------------------------------------
\* cluster.forEach(p => { minx = Math.min(minx, p.x - p.r); ... }) from member
\* k on; the accumulator << >> stands for (Infinity, Infinity, -Infinity, -Infinity)
RECURSIVE BoundsFrom(_, _, _, _)
BoundsFrom(dots, cluster, k, acc) ==
    IF k > Len(cluster) THEN acc
    ELSE LET p == dots[cluster[k]]
         IN  BoundsFrom(dots, cluster, k + 1,
                 IF acc = << >>
                 THEN <<Minus(p.x, p.r), Minus(p.y, p.r), Plus(p.x, p.r), Plus(p.y, p.r)>>
                 ELSE <<MathMin(acc[1], Minus(p.x, p.r)), MathMin(acc[2], Minus(p.y, p.r)),
                        MathMax(acc[3], Plus(p.x, p.r)), MathMax(acc[4], Plus(p.y, p.r))>>)

RECURSIVE CentresFrom(_, _, _, _)
CentresFrom(dots, cluster, k, acc) ==
    IF k > Len(cluster) THEN acc
    ELSE LET p == dots[cluster[k]]
         IN  CentresFrom(dots, cluster, k + 1,
                 IF acc = << >>
                 THEN <<p.x, p.y, p.x, p.y>>
                 ELSE <<MathMin(acc[1], p.x), MathMin(acc[2], p.y),
                        MathMax(acc[3], p.x), MathMax(acc[4], p.y)>>)

TileBoxOverCentres(dots, cluster) ==
    LET b == CentresFrom(dots, cluster, 1, << >>)
    IN  [minx |-> b[1] - Pad, miny |-> b[2] - Pad,
         maxx |-> b[3] + Pad, maxy |-> b[4] + Pad, txt |-> Len(cluster)]

\* the body of clusters.forEach: the padded box and the label String(cluster.length)
TileBox(dots, cluster) ==
    LET b == BoundsFrom(dots, cluster, 1, << >>)
    IN  [minx |-> Minus(b[1], Pad), miny |-> Minus(b[2], Pad),
         maxx |-> Plus(b[3], Pad), maxy |-> Plus(b[4], Pad), txt |-> Len(cluster)]

\* clusters.forEach(...): one box per cluster, in the order of the list
RECURSIVE DrawTiles(_, _)
DrawTiles(dots, clusters) ==
    IF clusters = << >> THEN << >>
    ELSE <<TileBox(dots, Head(clusters))>> \o DrawTiles(dots, Tail(clusters))

\* a ring for every dot, then the boxes
drawOverlay(dots, clusters) == [rings |-> dots, boxes |-> DrawTiles(dots, clusters)]

NothingDrawn == [rings |-> << >>, boxes |-> << >>]

NoAnalysis ==
    [pc |-> "idle", by |-> "none", contours |-> << >>, i |-> 1, dots |-> << >>,
     minArea |-> 0, maxArea |-> 0, eps |-> << >>, epsLocal |-> 0]

\* the activation after step 5 (findContours): the callback it was called by,
\* its contours, an empty dots list, and the tunables as they are at the start
\* (kept for reference only: the code reads MIN_AREA, MAX_AREA and EPS where
\* it uses them)
AnalysisOf(by, contours, minArea, maxArea, eps) ==
    [pc |-> "filter", by |-> by, contours |-> contours, i |-> 1, dots |-> << >>,
     minArea |-> minArea, maxArea |-> maxArea, eps |-> eps, epsLocal |-> 0]

EarlyResult == [total |-> 0, clusters |-> << >>]

\* const out = analyzeFrame(): either the early return, or the activation
\* is started on the contours of the current frame
AnalyzeFrameCall(by) ==
    IF ~ cvReady \/ video[1] = 0
    THEN /\ out' = EarlyResult
         /\ UNCHANGED <<an, depth>>
    ELSE /\ \E contours \in CameraFrames :
               an' = AnalysisOf(by, contours, MIN_AREA, MAX_AREA, EPS)
         /\ depth' = depth + 1
         /\ UNCHANGED out

\* one iteration of the filter loop (step 6), or its exit up to  const eps = ...
FilterLoop ==
    /\ an.pc = "filter"
    /\ IF an.i > Len(an.contours)
       THEN an' = [an EXCEPT !.pc = "cluster", !.epsLocal = EpsOrAuto(EPS, work)]
       ELSE LET cnt == an.contours[an.i]
            IN  an' = [an EXCEPT
                         !.dots = IF Passes(cnt, MIN_AREA, MAX_AREA)
                                  THEN Append(@, [x |-> cnt.x, y |-> cnt.y, r |-> cnt.r])
                                  ELSE @,
                         !.i = an.i + 1]
    /\ UNCHANGED <<db, hostDefinesStart, scriptPc, listeners, startPc, cvReady, video,
                   work, btnSnapDisabled, liveChecked, liveTimer, minRange, maxRange,
                   MIN_AREA, MAX_AREA, EPS, pending, depth, out, overlay, lastClick>>

\* steps 7..9 and the caller's prettyPrint(out)
ClusterAndReturn ==
    /\ an.pc = "cluster"
    /\ LET clusters == dbscan(an.dots, an.epsLocal, MIN_PTS)
           perTile  == MapLength(clusters)
       IN  /\ overlay' = drawOverlay(an.dots, clusters)
           /\ out' = [total |-> Len(an.dots), clusters |-> perTile]
    /\ an' = NoAnalysis
    /\ depth' = depth - 1
    /\ UNCHANGED <<db, hostDefinesStart, scriptPc, listeners, startPc, cvReady, video,
                   work, btnSnapDisabled, liveChecked, liveTimer, minRange, maxRange,
                   MIN_AREA, MAX_AREA, EPS, pending, lastClick>>

\* ------------------------------------------------------------------------
\* the page: script evaluation, camera start, events
\* ------------------------------------------------------------------------
EventKinds == {"startCam", "snap", "live", "tick", "eps", "minArea", "maxArea"}

SliderAreas == 1..MaxAreaVal

SliderEps == 0..MaxEps

\* canvas size before resizeCanvases has run (the default size of a canvas)
InitialCanvas == <<300, 150>>

\* the size the camera delivers (the ideal of CAMERA_CONSTRAINTS)
CameraSize == <<1280, 720>>

AppInit ==
    /\ hostDefinesStart \in BOOLEAN
    /\ scriptPc = "loading"
    /\ listeners = {}
    /\ startPc = "idle"
    /\ cvReady = FALSE
    /\ video = <<0, 0>>
    /\ work = InitialCanvas
    /\ btnSnapDisabled = TRUE
    /\ liveChecked = FALSE
    /\ liveTimer = FALSE
    /\ minRange = DefaultMinArea
    /\ maxRange = DefaultMaxArea
    /\ MIN_AREA = DefaultMinArea
    /\ MAX_AREA = DefaultMaxArea
    /\ EPS = << >>
    /\ pending = {}
    /\ depth = 0
    /\ an = NoAnalysis
    /\ out = EarlyResult
    /\ overlay = NothingDrawn
    /\ lastClick = "none"

\* Evaluation of app.js.  The startCam listener is added at line 60.  Line 100
\* calls startWhenCvReady, which app.js never defines: unless the page
\* defines it the call throws a ReferenceError and the statements after it,
\* the listeners of lines 171..201, are never executed.
LoadScript ==
    /\ scriptPc = "loading"
    /\ IF hostDefinesStart
       THEN /\ scriptPc' = "done"
            /\ listeners' = {"startCam", "snap", "live", "eps", "minArea", "maxArea"}
       ELSE /\ scriptPc' = "threw"
            /\ listeners' = {"startCam"}
    /\ UNCHANGED <<db, hostDefinesStart, startPc, cvReady, video, work, btnSnapDisabled,
                   liveChecked, liveTimer, minRange, maxRange, MIN_AREA, MAX_AREA, EPS,
                   pending, depth, an, out, overlay, lastClick>>

\* A task (event handler, timer callback, continuation of an await) starts
\* only when no script is running: analyzeFrame has no await and is called
\* from plain callbacks, so it runs to its return before the next task.
StackBusyOrNot == TRUE

StackEmpty == an.pc = "idle"

\* an event is put into the task queue; this can happen at any time
Arrive ==
    /\ scriptPc # "loading"
    /\ Cardinality(pending) < MaxPending
    /\ \E k \in EventKinds \ pending :
         /\ k = "startCam" => startPc = "idle"       \* startBtn not disabled
         /\ k = "snap" => ~ btnSnapDisabled          \* a disabled button gets no click
         /\ k = "tick" => liveTimer                  \* the interval is running
         /\ pending' = pending \cup {k}
    /\ UNCHANGED <<db, hostDefinesStart, scriptPc, listeners, startPc, cvReady, video,
                   work, btnSnapDisabled, liveChecked, liveTimer, minRange, maxRange,
                   MIN_AREA, MAX_AREA, EPS, depth, an, out, overlay, lastClick>>

Take(k) == StackEmpty /\ k \in pending /\ pending' = pending \ {k}

\* startBtn click: startBtn.disabled = true; await waitForOpenCVThenStart()
StartCamClick ==
    /\ Take("startCam")
    /\ startPc = "idle"
    /\ startPc' = "waitCv"
    /\ UNCHANGED <<db, hostDefinesStart, scriptPc, listeners, cvReady, video, work,
                   btnSnapDisabled, liveChecked, liveTimer, minRange, maxRange,
                   MIN_AREA, MAX_AREA, EPS, depth, an, out, overlay, lastClick>>

\* waitForOpenCVThenStart: cv is there (directly or by onRuntimeInitialized);
\* cvReady = true, and initCamera runs up to its getUserMedia await
CvLoaded ==
    /\ StackEmpty
    /\ startPc = "waitCv"
    /\ cvReady' = TRUE
    /\ startPc' = "getMedia"
    /\ UNCHANGED <<db, hostDefinesStart, scriptPc, listeners, video, work,
                   btnSnapDisabled, liveChecked, liveTimer, minRange, maxRange,
                   MIN_AREA, MAX_AREA, EPS, pending, depth, an, out, overlay, lastClick>>

\* both getUserMedia calls reject: the catch of initCamera reports it
MediaDenied ==
    /\ StackEmpty
    /\ startPc = "getMedia"
    /\ startPc' = "failed"
    /\ UNCHANGED <<db, hostDefinesStart, scriptPc, listeners, cvReady, video, work,
                   btnSnapDisabled, liveChecked, liveTimer, minRange, maxRange,
                   MIN_AREA, MAX_AREA, EPS, pending, depth, an, out, overlay, lastClick>>

\* a stream is granted and its metadata loads: videoWidth becomes non-zero,
\* and initCamera goes on to  await video.play()
MetadataLoaded ==
    /\ StackEmpty
    /\ startPc = "getMedia"
    /\ video' = CameraSize
    /\ startPc' = "play"
    /\ UNCHANGED <<db, hostDefinesStart, scriptPc, listeners, cvReady, work,
                   btnSnapDisabled, liveChecked, liveTimer, minRange, maxRange,
                   MIN_AREA, MAX_AREA, EPS, pending, depth, an, out, overlay, lastClick>>

\* the rest of initCamera: resizeCanvases, MIN_AREA = +minRange.value,
\* MAX_AREA = +maxRange.value, setAutoEps, btnSnap.disabled = false
CameraStarted ==
    /\ StackEmpty
    /\ startPc = "play"
    /\ work' = <<IF video[1] # 0 THEN video[1] ELSE 1280,
                 IF video[2] # 0 THEN video[2] ELSE 720>>
    /\ MIN_AREA' = minRange
    /\ MAX_AREA' = maxRange
    /\ btnSnapDisabled' = FALSE
    /\ startPc' = "ready"
    /\ UNCHANGED <<db, hostDefinesStart, scriptPc, listeners, cvReady, video,
                   liveChecked, liveTimer, minRange, maxRange, EPS, pending, depth,
                   an, out, overlay, lastClick>>

\* click on the snap button: const out = analyzeFrame(); prettyPrint(out)
SnapClick ==
    /\ Take("snap")
    /\ IF "snap" \in listeners
       THEN /\ lastClick' = "invoked"
            /\ AnalyzeFrameCall("snap")
       ELSE /\ lastClick' = "ignored"
            /\ UNCHANGED <<an, depth, out>>
    /\ UNCHANGED <<db, hostDefinesStart, scriptPc, listeners, startPc, cvReady, video,
                   work, btnSnapDisabled, liveChecked, liveTimer, minRange, maxRange,
                   MIN_AREA, MAX_AREA, EPS, overlay>>

\* change of the live box: setInterval(..., 140) or clearInterval
LiveChange ==
    /\ Take("live")
    /\ liveChecked' = ~ liveChecked
    /\ liveTimer' = IF "live" \in listeners THEN ~ liveChecked ELSE liveTimer
    /\ UNCHANGED <<db, hostDefinesStart, scriptPc, listeners, startPc, cvReady, video,
                   work, btnSnapDisabled, minRange, maxRange, MIN_AREA, MAX_AREA, EPS,
                   depth, an, out, overlay, lastClick>>

\* the interval's callback; a callback of a cleared interval does not run
TimerTick ==
    /\ Take("tick")
    /\ IF liveTimer
       THEN AnalyzeFrameCall("tick")
       ELSE UNCHANGED <<an, depth, out>>
    /\ UNCHANGED <<db, hostDefinesStart, scriptPc, listeners, startPc, cvReady, video,
                   work, btnSnapDisabled, liveChecked, liveTimer, minRange, maxRange,
                   MIN_AREA, MAX_AREA, EPS, overlay, lastClick>>

\* input on the eps slider: EPS = +e.target.value
EpsInput ==
    /\ Take("eps")
    /\ \E v \in SliderEps :
         EPS' = IF "eps" \in listeners THEN <<v>> ELSE EPS
    /\ UNCHANGED <<db, hostDefinesStart, scriptPc, listeners, startPc, cvReady, video,
                   work, btnSnapDisabled, liveChecked, liveTimer, minRange, maxRange,
                   MIN_AREA, MAX_AREA, depth, an, out, overlay, lastClick>>

\* input on the minArea slider: MIN_AREA = +e.target.value
MinAreaInput ==
    /\ Take("minArea")
    /\ \E v \in SliderAreas :
         /\ minRange' = v
         /\ MIN_AREA' = IF "minArea" \in listeners THEN v ELSE MIN_AREA
    /\ UNCHANGED <<db, hostDefinesStart, scriptPc, listeners, startPc, cvReady, video,
                   work, btnSnapDisabled, liveChecked, liveTimer, maxRange,
                   MAX_AREA, EPS, depth, an, out, overlay, lastClick>>

\* input on the maxArea slider: MAX_AREA = +e.target.value
MaxAreaInput ==
    /\ Take("maxArea")
    /\ \E v \in SliderAreas :
         /\ maxRange' = v
         /\ MAX_AREA' = IF "maxArea" \in listeners THEN v ELSE MAX_AREA
    /\ UNCHANGED <<db, hostDefinesStart, scriptPc, listeners, startPc, cvReady, video,
                   work, btnSnapDisabled, liveChecked, liveTimer, minRange,
                   MIN_AREA, EPS, depth, an, out, overlay, lastClick>>

NoDbscan == DbscanEntry(<< >>, 0, MIN_PTS)

Init == AppInit /\ db = NoDbscan

Next ==
    \/ LoadScript \/ Arrive
    \/ StartCamClick \/ CvLoaded \/ MediaDenied \/ MetadataLoaded \/ CameraStarted
    \/ SnapClick \/ LiveChange \/ TimerTick
    \/ EpsInput \/ MinAreaInput \/ MaxAreaInput
    \/ FilterLoop \/ ClusterAndReturn

Spec == Init /\ [][Next]_vars

\* ---- the filter and the rest of one analysis, on every probe frame ----
InitFilter ==
    /\ db = NoDbscan
    /\ hostDefinesStart = TRUE
    /\ scriptPc = "done"
    /\ listeners = {"startCam", "snap", "live", "eps", "minArea", "maxArea"}
    /\ startPc = "ready"
    /\ cvReady = TRUE
    /\ video = CameraSize
    /\ work = CameraSize
    /\ btnSnapDisabled = FALSE
    /\ liveChecked = FALSE
    /\ liveTimer = FALSE
    /\ \E t \in (SliderAreas \X SliderAreas) \cup {<<DefaultMinArea, DefaultMaxArea>>} :
         /\ minRange = t[1] /\ MIN_AREA = t[1]
         /\ maxRange = t[2] /\ MAX_AREA = t[2]
         /\ EPS = <<1>>
         /\ \E contours \in Frames({t[1] - 1, t[1], t[2], t[2] + 1}, Boxes) :
              an = AnalysisOf("snap", contours, t[1], t[2], EPS)
    /\ pending = {}
    /\ depth = 1
    /\ out = EarlyResult
    /\ overlay = NothingDrawn
    /\ lastClick = "invoked"

NextFilter == FilterLoop \/ ClusterAndReturn

SpecFilter == InitFilter /\ [][NextFilter]_vars

\* ---- one analysis of frames in which minEnclosingCircle may report NaN ----
\* contours of accepted area and shape; the centre's x is a column or NaN
CircleFrames ==
    UNION { [1..n -> { [area |-> DefaultMinArea, width |-> 1, height |-> 1,
                        x |-> x, y |-> 0, r |-> 1] : x \in (0..MaxCoord) \cup {NaN} }]
            : n \in 0..MaxContours }

InitCircles ==
    /\ db = NoDbscan
    /\ hostDefinesStart = TRUE
    /\ scriptPc = "done"
    /\ listeners = {"startCam", "snap", "live", "eps", "minArea", "maxArea"}
    /\ startPc = "ready"
    /\ cvReady = TRUE
    /\ video = CameraSize
    /\ work = CameraSize
    /\ btnSnapDisabled = FALSE
    /\ liveChecked = FALSE
    /\ liveTimer = FALSE
    /\ minRange = DefaultMinArea /\ MIN_AREA = DefaultMinArea
    /\ maxRange = DefaultMaxArea /\ MAX_AREA = DefaultMaxArea
    /\ EPS \in {<<v>> : v \in SliderEps}
    /\ \E contours \in CircleFrames :
         an = AnalysisOf("snap", contours, MIN_AREA, MAX_AREA, EPS)
    /\ pending = {}
    /\ depth = 1
    /\ out = EarlyResult
    /\ overlay = NothingDrawn
    /\ lastClick = "invoked"

SpecCircles == InitCircles /\ [][NextFilter]_vars

\* ---- snapshots while the eps slider is moved and the canvases are resized ----
VideoSizes == { <<1280, 720>>, <<640, 480>>, <<0, 0>> }

\* the camera changes the size of its frames (the device is turned, the
\* track is reconfigured, the stream stalls)
CameraResized ==
    /\ StackEmpty
    /\ \E size \in VideoSizes \ {video} : video' = size
    /\ UNCHANGED <<db, hostDefinesStart, scriptPc, listeners, startPc, cvReady, work,
                   btnSnapDisabled, liveChecked, liveTimer, minRange, maxRange,
                   MIN_AREA, MAX_AREA, EPS, pending, depth, an, out, overlay, lastClick>>

\* resize of the window: resizeCanvases()
Resize ==
    /\ Take("resize")
    /\ work' = <<IF video[1] # 0 THEN video[1] ELSE 1280,
                 IF video[2] # 0 THEN video[2] ELSE 720>>
    /\ UNCHANGED <<db, hostDefinesStart, scriptPc, listeners, startPc, cvReady, video,
                   btnSnapDisabled, liveChecked, liveTimer, minRange, maxRange,
                   MIN_AREA, MAX_AREA, EPS, depth, an, out, overlay, lastClick>>

ArriveTuning ==
    /\ Cardinality(pending) < MaxPending
    /\ \E k \in {"snap", "eps", "resize"} \ pending : pending' = pending \cup {k}
    /\ UNCHANGED <<db, hostDefinesStart, scriptPc, listeners, startPc, cvReady, video,
                   work, btnSnapDisabled, liveChecked, liveTimer, minRange, maxRange,
                   MIN_AREA, MAX_AREA, EPS, depth, an, out, overlay, lastClick>>

\* the page after initCamera has finished, the area sliders at the ends of
\* their range, the eps slider untouched
InitEps ==
    /\ db = NoDbscan
    /\ hostDefinesStart = TRUE
    /\ scriptPc = "done"
    /\ listeners = {"startCam", "snap", "live", "eps", "minArea", "maxArea"}
    /\ startPc = "ready"
    /\ cvReady = TRUE
    /\ video = CameraSize
    /\ work = CameraSize
    /\ btnSnapDisabled = FALSE
    /\ liveChecked = FALSE
    /\ liveTimer = FALSE
    /\ minRange = 1 /\ MIN_AREA = 1
    /\ maxRange = MaxAreaVal /\ MAX_AREA = MaxAreaVal
    /\ EPS = << >>
    /\ an = NoAnalysis
    /\ pending = {}
    /\ depth = 0
    /\ out = EarlyResult
    /\ overlay = NothingDrawn
    /\ lastClick = "none"

NextEps ==
    \/ ArriveTuning \/ CameraResized \/ Resize \/ EpsInput \/ SnapClick
    \/ FilterLoop \/ ClusterAndReturn

SpecEps == InitEps /\ [][NextEps]_vars

\* ---- clustering and drawing of one analysis, on every list of dots ----
DotLists ==
    UNION { [1..n -> {[x |-> c[1], y |-> c[2], r |-> r] : c \in Coords, r \in 1..MaxR}]
            : n \in 0..MaxContours }

\* an activation whose filter loop has accepted the contours of these dots
AfterFilter(dots, minArea, maxArea, eps) ==
    [pc |-> "cluster", by |-> "snap",
     contours |-> [k \in 1..Len(dots) |->
                     [area |-> minArea, width |-> 1, height |-> 1,
                      x |-> dots[k].x, y |-> dots[k].y, r |-> dots[k].r]],
     i |-> Len(dots) + 1, dots |-> dots,
     minArea |-> minArea, maxArea |-> maxArea, eps |-> eps,
     epsLocal |-> EpsOrAuto(eps, CameraSize)]

InitOverlay ==
    /\ db = NoDbscan
    /\ hostDefinesStart = TRUE
    /\ scriptPc = "done"
    /\ listeners = {"startCam", "snap", "live", "eps", "minArea", "maxArea"}
    /\ startPc = "ready"
    /\ cvReady = TRUE
    /\ video = CameraSize
    /\ work = CameraSize
    /\ btnSnapDisabled = FALSE
    /\ liveChecked = FALSE
    /\ liveTimer = FALSE
    /\ minRange = DefaultMinArea /\ MIN_AREA = DefaultMinArea
    /\ maxRange = DefaultMaxArea /\ MAX_AREA = DefaultMaxArea
    /\ EPS \in {<<v>> : v \in SliderEps}
    /\ \E dots \in DotLists : an = AfterFilter(dots, MIN_AREA, MAX_AREA, EPS)
    /\ pending = {}
    /\ depth = 1
    /\ out = EarlyResult
    /\ overlay = NothingDrawn
    /\ lastClick = "invoked"

NextOverlay == ClusterAndReturn

SpecOverlay == InitOverlay /\ [][NextOverlay]_vars

\* ---- the clustering routine as a state machine over its own locals ----
InitDbscan ==
    /\ AppInit
    /\ hostDefinesStart = FALSE
    /\ \E points \in PointLists, eps \in 0..MaxEps, minPts \in 1..MaxMinPts :
          db = DbscanEntry(points, eps, minPts)

MainLoop == db.pc = "main" /\ db' = MainLoopStep(db) /\ UNCHANGED appVars

Expand == db.pc = "expand" /\ db' = ExpandStep(db) /\ UNCHANGED appVars

Group == db.pc = "group" /\ db' = GroupStep(db) /\ UNCHANGED appVars

NextDbscan == MainLoop \/ Expand \/ Group

SpecDbscan == InitDbscan /\ [][NextDbscan]_vars

\* ---- the routine on lists that may hold a point with a NaN centre ----
NumberPointLists ==
    UNION { [1..n -> {PointOf(<<x, 0>>) : x \in (0..MaxCoord) \cup {NaN}}] : n \in 0..MaxN }

InitDbscanNumbers ==
    /\ AppInit
    /\ hostDefinesStart = FALSE
    /\ \E points \in NumberPointLists, eps \in 0..MaxEps, minPts \in 1..MaxMinPts :
          db = DbscanEntry(points, eps, minPts)

SpecDbscanNumbers == InitDbscanNumbers /\ [][NextDbscan]_vars

\* ---- the routine on two groups that share a border point ----
\* two dense corners and a middle point that is near a point of each corner
\* but has too few neighbours of its own to be a core point
BorderPoints ==
    << PointOf(<<0, 1>>), PointOf(<<0, 1>>), PointOf(<<0, 0>>), PointOf(<<1, 0>>),
       PointOf(<<2, 0>>), PointOf(<<2, 1>>), PointOf(<<2, 1>>) >>

BorderMinPts == 4

\* the seven points in every order
BorderLists ==
    { [k \in 1..Len(BorderPoints) |-> BorderPoints[f[k]]] :
        f \in Permutations(1..Len(BorderPoints)) }

InitBorder ==
    /\ AppInit
    /\ hostDefinesStart = FALSE
    /\ \E points \in BorderLists : db = DbscanEntry(points, 1, BorderMinPts)

InitLabels == InitDbscanNumbers \/ InitBorder

SpecLabels == InitLabels /\ [][NextDbscan]_vars

\* a call that has not returned goes on: the routine is one synchronous call
FairSpecLabels == SpecLabels /\ WF_vars(NextDbscan)

\* ---- the same routine with the frontier handed out in any order ----
\* point lists on one row
RowPointLists ==
    UNION { [1..n -> {PointOf(<<x, 0>>) : x \in 0..MaxCoord}] : n \in 0..MaxN }

InitAnyOrder ==
    /\ AppInit
    /\ hostDefinesStart = FALSE
    /\ \E points \in RowPointLists, eps \in 0..MaxEps, minPts \in 1..MaxMinPts :
          db = DbscanEntry(points, eps, minPts)

Undrawn(s) == Range(s.seeds) \ Range(s.drawn)

ExpandAnyOrder ==
    /\ db.pc = "expand"
    /\ IF Undrawn(db) = {}
       THEN db' = [db EXCEPT !.i = db.i + 1, !.pc = "main"]
       ELSE \E n \in Undrawn(db) : db' = DrawSeed(db, n)
    /\ UNCHANGED appVars

NextAnyOrder == MainLoop \/ ExpandAnyOrder \/ Group

SpecAnyOrder == InitAnyOrder /\ [][NextAnyOrder]_vars

\* ------------------------------------------------------------------------
\* Properties of dbscan (checked under SpecDbscan)
\* ------------------------------------------------------------------------
N == Len(db.points)

Done == db.pc = "done"

Dist2(i, j) ==
    (db.points[i].x - db.points[j].x) * (db.points[i].x - db.points[j].x)
  + (db.points[i].y - db.points[j].y) * (db.points[i].y - db.points[j].y)

Near(i, j) == Dist2(i, j) <= db.eps * db.eps

\* places (tile, position) of the returned list that hold point index i
PlacesOf(i) ==
    {tk \in (1..Len(db.clusters)) \X (1..N) :
        tk[2] <= Len(db.clusters[tk[1]]) /\ db.clusters[tk[1]][tk[2]] = i}

SameTile(i, j) ==
    \E t \in 1..Len(db.clusters) :
        i \in Range(db.clusters[t]) /\ j \in Range(db.clusters[t])

\* the points linked to a set of points by chains of eps-steps
RECURSIVE Chain(_)
Chain(S) ==
    LET T == S \cup {j \in 1..N : \E i \in S : Near(i, j)}
    IN  IF T = S THEN S ELSE Chain(T)

IsCore(p) == Cardinality({j \in 1..N : Near(p, j)}) >= db.minPts

\* C1: the returned tiles partition the input: every point index is a member
\* of exactly one tile, exactly once, and tiles hold nothing but input indices.
C1_Partition ==
    Done => /\ \A i \in 1..N : Cardinality(PlacesOf(i)) = 1
            /\ \A t \in 1..Len(db.clusters) : Range(db.clusters[t]) \subseteq 1..N

C1_Witness ==
    /\ Done /\ N = MaxN /\ db.minPts >= 2
    /\ \E t \in 1..Len(db.clusters) : Len(db.clusters[t]) >= 2
    /\ \E i \in 1..N : db.labels[i] = NOISE

\* C2: with minPts = 1 the tiles are the connected components of the graph
\* that joins two points at squared distance <= eps*eps.
C2_Components ==
    (Done /\ db.minPts = 1) =>
        \A i, j \in 1..N : SameTile(i, j) <=> j \in Chain({i})

C2_Witness ==
    /\ Done /\ db.minPts = 1
    /\ \E i, j \in 1..N : SameTile(i, j) /\ ~ Near(i, j)

\* C3: a region query returns, once each and in ascending order, exactly the
\* indices at squared distance <= eps*eps of its argument, the argument
\* itself included; distance exactly eps is in, any greater distance is out.
C3_RegionQuery ==
    db.q # 0 =>
        /\ Range(db.neighbors) = {j \in 1..N : Dist2(db.q, j) <= db.eps * db.eps}
        /\ db.q \in Range(db.neighbors)
        /\ \A a, b \in 1..Len(db.neighbors) : a < b => db.neighbors[a] < db.neighbors[b]
        /\ \A j \in 1..N : Dist2(db.q, j) = db.eps * db.eps => j \in Range(db.neighbors)
        /\ \A j \in 1..N : Dist2(db.q, j) > db.eps * db.eps => j \notin Range(db.neighbors)

C3_Witness ==
    /\ db.q # 0 /\ db.eps > 0
    /\ \E j \in Range(db.neighbors) : j # db.q /\ Dist2(db.q, j) = db.eps * db.eps
    /\ \E j \in 1..N : Dist2(db.q, j) = db.eps * db.eps + 1 /\ j \notin Range(db.neighbors)

\* a tile of the result is a promoted singleton when its one member ended
\* with the Noise label, and a cluster tile otherwise
IsLone(t) == Len(db.clusters[t]) = 1 /\ db.labels[db.clusters[t][1]] = NOISE

IdOf(t) == db.labels[db.clusters[t][1]]

\* C5: the result lists the clusters first, in the order their ids were
\* allocated (which is the input order of their seed points), then the
\* promoted Noise singletons in ascending input index.
C5_Order ==
    Done =>
        /\ \A a, b \in 1..Len(db.clusters) :
             a < b =>
               /\ IsLone(a) => IsLone(b)
               /\ (IsLone(a) /\ IsLone(b)) => db.clusters[a][1] < db.clusters[b][1]
               /\ (~ IsLone(a) /\ ~ IsLone(b)) => IdOf(a) < IdOf(b)
        /\ \A t \in 1..Len(db.clusters) :
             ~ IsLone(t) => \A k \in 1..Len(db.clusters[t]) :
                               db.labels[db.clusters[t][k]] = IdOf(t)
        /\ \A c, d \in 1..Len(db.seedPoint) :
             c < d => db.seedPoint[c] < db.seedPoint[d]

C5_Witness ==
    /\ Done
    /\ \E a, b \in 1..Len(db.clusters) :
         /\ a < b /\ ~ IsLone(a) /\ IsLone(b)
         /\ db.clusters[b][1] < db.clusters[a][1]

\* C6: the points promoted from Noise to a one-member tile are exactly the
\* points that are not core and have no core point within eps; each of them
\* is returned as a tile of its own.
C6_NoisePromotion ==
    Done =>
        \A p \in 1..N :
            /\ (db.labels[p] = NOISE) <=>
                   (~ IsCore(p) /\ ~ \E c \in 1..N : IsCore(c) /\ Near(p, c))
            /\ (db.labels[p] = NOISE) => \E t \in 1..Len(db.clusters) : db.clusters[t] = <<p>>
            /\ (db.labels[p] # NOISE) =>
                   /\ db.labels[p] \in 0..(db.C - 1)
                   /\ \E t \in 1..Len(db.clusters) :
                        p \in Range(db.clusters[t]) /\ ~ IsLone(t)

C6_Witness ==
    /\ Done
    /\ \E p \in 1..N : db.labels[p] = NOISE /\ \E t \in 1..Len(db.clusters) : db.clusters[t] = <<p>>
    /\ \E p \in 1..N : db.labels[p] >= 0

SamePlace(i, j) ==
    db.points[i].x = db.points[j].x /\ db.points[i].y = db.points[j].y

\* C7 as stated: with eps = 0 and minPts = 1 every input list of N points
\* yields N tiles of one member each.
C7_AllSingletons ==
    (Done /\ db.eps = 0 /\ db.minPts = 1) =>
        /\ Len(db.clusters) = N
        /\ \A t \in 1..Len(db.clusters) : Len(db.clusters[t]) = 1

\* C7 amended: with eps = 0 and minPts = 1 two points share a tile exactly
\* when they have the same coordinates; a list of N points at pairwise
\* distinct coordinates yields N tiles of one member each.
C7_SingletonsUnlessCoincident ==
    (Done /\ db.eps = 0 /\ db.minPts = 1) =>
        /\ \A i, j \in 1..N : SameTile(i, j) <=> SamePlace(i, j)
        /\ (\A i, j \in 1..N : i # j => ~ SamePlace(i, j)) =>
               /\ Len(db.clusters) = N
               /\ \A t \in 1..Len(db.clusters) : Len(db.clusters[t]) = 1

C7_Witness ==
    /\ Done /\ db.eps = 0 /\ db.minPts = 1 /\ N = MaxN
    /\ \A i, j \in 1..N : i # j => ~ SamePlace(i, j)
    /\ Len(db.clusters) = N

\* ------------------------------------------------------------------------
\* Properties of the contour filter (checked under SpecFilter)
\* ------------------------------------------------------------------------
InArea(c) == MIN_AREA <= c.area /\ c.area <= MAX_AREA

NearSquare(c) == 2 * c.width > c.height /\ c.width < 2 * c.height

\* the circles of the first n contours that are within the area bounds and
\* near-square, in contour order
Kept(n) ==
    LET ks == SelectSeq(Indices(n), LAMBDA k : InArea(an.contours[k]) /\ NearSquare(an.contours[k]))
    IN  [j \in 1..Len(ks) |-> [x |-> an.contours[ks[j]].x,
                               y |-> an.contours[ks[j]].y,
                               r |-> an.contours[ks[j]].r]]

\* C4: the filter emits a dot for a contour iff minArea <= area <= maxArea
\* and 0.5 < width/height < 2.0 (area bounds inclusive, ratio bounds strict);
\* accepted contours keep their order and rejected ones add nothing.
C4_Filter ==
    /\ an.pc = "filter" => an.dots = Kept(an.i - 1)
    /\ an.pc = "cluster" =>
         /\ an.dots = Kept(Len(an.contours))
         /\ \A k \in 1..Len(an.contours) :
              LET c == an.contours[k]
              IN  (2 * c.width = c.height \/ c.width = 2 * c.height)
                    => \A d \in 1..Len(an.dots) : an.dots[d].x # c.x

C4_Witness ==
    /\ an.pc = "cluster" /\ Len(an.contours) = 2 /\ Len(an.dots) = 1
    /\ MIN_AREA < MAX_AREA
    /\ an.contours[1].area = MIN_AREA /\ 2 * an.contours[1].width = an.contours[1].height
    /\ an.contours[2].area = MAX_AREA /\ an.dots[1].x = an.contours[2].x

\* ------------------------------------------------------------------------
\* Properties of the page (checked under Spec)
\* ------------------------------------------------------------------------

\* C8: at most one analyzeFrame is in progress at any time, and MIN_AREA,
\* MAX_AREA and EPS keep, while it is in progress, the values they had when
\* it started: events that arrive meanwhile wait in the queue.
C8_AtMostOne ==
    /\ depth <= 1
    /\ an.pc # "idle" =>
         /\ depth = 1
         /\ MIN_AREA = an.minArea /\ MAX_AREA = an.maxArea /\ EPS = an.eps

\* an analysis called by the timer is half-way while the next tick of the
\* timer and a slider input, both arrived after it started, wait
C8_Witness ==
    /\ an.pc = "filter" /\ an.i = 2 /\ an.by = "tick"
    /\ pending = {"tick", "minArea"}

\* C9: no analysis runs with MIN_AREA > MAX_AREA or with a negative eps,
\* because such a configuration is refused when a slider sets it.
C9_ConfigRejected ==
    an.pc # "idle" =>
        /\ MIN_AREA <= MAX_AREA
        /\ EPS # << >> => EPS[1] >= 0

\* C10: once the script has been evaluated and the snap button is enabled,
\* every click on it has called analyzeFrame, and while the live box is
\* checked the interval that calls analyzeFrame is running.
C10_SnapAndLive ==
    (scriptPc # "loading" /\ ~ btnSnapDisabled) =>
        /\ lastClick # "ignored"
        /\ liveChecked => liveTimer

\* ------------------------------------------------------------------------
\* Properties of drawOverlay (checked under SpecOverlay)
\* ------------------------------------------------------------------------
EpsUsed == IF EPS = << >> THEN AutoEps(work) ELSE EPS[1]

\* the tiles dbscan returns for the dots that were drawn
DrawnTiles == dbscan(overlay.rings, EpsUsed, MIN_PTS)

Returned == an.pc = "idle" /\ depth = 0

\* C11: the box of every tile is min(x - r) - 10, min(y - r) - 10,
\* max(x + r) + 10, max(y + r) + 10 over the tile's members, so it holds every
\* member's circle with a margin of 10; the label is the number of members;
\* the boxes are drawn in the order of the tiles dbscan returned.
C11_Boxes ==
    Returned =>
        /\ Len(overlay.boxes) = Len(DrawnTiles)
        /\ \A t \in 1..Len(overlay.boxes) :
             LET b == overlay.boxes[t]
                 M == {overlay.rings[m] : m \in Range(DrawnTiles[t])}
             IN  /\ b.txt = Len(DrawnTiles[t])
                 /\ \A p \in M : /\ b.minx <= p.x - p.r - 10
                                 /\ b.miny <= p.y - p.r - 10
                                 /\ b.maxx >= p.x + p.r + 10
                                 /\ b.maxy >= p.y + p.r + 10
                 /\ \E p \in M : b.minx = p.x - p.r - 10
                 /\ \E p \in M : b.miny = p.y - p.r - 10
                 /\ \E p \in M : b.maxx = p.x + p.r + 10
                 /\ \E p \in M : b.maxy = p.y + p.r + 10

\* a drawn tile of two members at different places and of different radius
C11_Witness ==
    /\ Returned /\ Len(overlay.boxes) = 1 /\ Len(overlay.rings) = 2
    /\ overlay.boxes[1].txt = 2
    /\ \E p, q \in {overlay.rings[m] : m \in Range(DrawnTiles[1])} :
         p.x < q.x /\ p.r < q.r

\* ------------------------------------------------------------------------
\* Order of the frontier (checked under SpecAnyOrder)
\* ------------------------------------------------------------------------
\* what the insertion-order iteration of the code returns for the same call
CodeRun == DbscanRun(DbscanEntry(db.points, db.eps, db.minPts))

\* C12: for a fixed input list, eps and minPts >= 1, the final label of every
\* point, and so the tiles and their counts, are the same for any order in
\* which points are drawn from the frontier as for the insertion order the
\* code uses.
C12_OrderIndependent ==
    Done => /\ db.labels = CodeRun.labels
            /\ db.clusters = CodeRun.clusters
            /\ MapLength(db.clusters) = MapLength(CodeRun.clusters)

\* a finished run whose last expansion drew a later member of the frontier
\* before an earlier one
C12_Witness ==
    /\ Done /\ db.minPts >= 1
    /\ Len(db.drawn) >= 2
    /\ \E a, b \in 1..Len(db.drawn) :
         /\ a < b
         /\ \E u, v \in 1..Len(db.seeds) :
              u > v /\ db.seeds[u] = db.drawn[a] /\ db.seeds[v] = db.drawn[b]

\* ------------------------------------------------------------------------
\* Candidates with a non-finite circle (checked under SpecCircles)
\* ------------------------------------------------------------------------
Finite(p) == ~ IsNaN(p.x) /\ ~ IsNaN(p.y) /\ ~ IsNaN(p.r)

\* C13: a candidate whose centre or radius is not finite is dropped by the
\* filter: it is never in the dots list handed to dbscan and is not counted
\* in total.
C13_NonFiniteDropped ==
    /\ \A k \in 1..Len(an.dots) : Finite(an.dots[k])
    /\ Returned =>
         /\ \A k \in 1..Len(overlay.rings) : Finite(overlay.rings[k])
         /\ out.total = Cardinality({k \in 1..Len(overlay.rings) : Finite(overlay.rings[k])})

\* ------------------------------------------------------------------------
\* The eps of an analysis (checked under SpecEps)
\* ------------------------------------------------------------------------
Longer(size) == IF size[1] >= size[2] THEN size[1] ELSE size[2]

\* r is 0.065 * m rounded to the nearest integer, halves upwards
IsRounded65(r, m) == 1000 * r <= 65 * m + 500 /\ 65 * m + 500 < 1000 * r + 1000

\* eps has been computed and dbscan is about to be called with it
AtDbscanCall == an.pc = "cluster"

\* EPS stays set once it is set, and changes only as an eps input is taken
EpsChangesByInput ==
    /\ (EPS # << >>) => (EPS' # << >>)
    /\ (EPS' # EPS) => ("eps" \in pending /\ "eps" \notin pending')

CentreIsNumber(i) == ~ IsNaN(db.points[i].x) /\ ~ IsNaN(db.points[i].y)

AllCentresNumbers == \A i \in 1..N : CentreIsNumber(i)

IsClusterId(lab) == lab # UNDEFINED /\ lab # NOISE

\* what one step may do to the label of point i
LabelForward(i) ==
    /\ IsClusterId(db.labels[i]) => db'.labels[i] = db.labels[i]
    /\ db'.labels[i] # db.labels[i] =>
         /\ db.labels[i] \in {UNDEFINED, NOISE}
         /\ IF db.pc = "expand"
            THEN /\ db'.labels[i] = db.clusterIdx
                 /\ i \in Range(db.seeds)
                 /\ db'.drawn = Append(db.drawn, i)
            ELSE /\ db.pc = "main" /\ i = db.i
                 /\ db.labels[i] = UNDEFINED
                 /\ db'.labels[i] \in {NOISE, db.C}

\* C16: a label only moves forward: a cluster id is never overwritten by
\* another id or by Noise; only an unassigned or a Noise label is replaced,
\* and in the expansion it is replaced by the id of the cluster being
\* expanded, for the point just drawn from that cluster's frontier.
C16_LabelsForward == [][\A i \in 1..N : LabelForward(i)]_vars

\* the expansion of a later cluster has drawn a point that carries the id of
\* an earlier cluster, and the point has kept that id
C16_Witness ==
    /\ db.pc = "expand"
    /\ \E k \in 1..Len(db.drawn) :
         /\ IsClusterId(db.labels[db.drawn[k]])
         /\ db.labels[db.drawn[k]] < db.clusterIdx

\* the main loop has finished: the grouping is about to run, or has run
MainLoopOver == db.pc \in {"group", "done"}

\* C17: when the main loop has finished, every point is visited and its label
\* is Noise or an allocated cluster id in 0..C-1; no label is left undefined.
C17_AllLabelled ==
    MainLoopOver =>
        \A i \in 1..N :
            /\ db.visited[i]
            /\ db.labels[i] # UNDEFINED
            /\ db.labels[i] = NOISE \/ db.labels[i] \in 0..(db.C - 1)

\* the main loop has finished on three points, one of them Noise, the others
\* in a cluster
C17_Witness ==
    /\ db.pc = "group" /\ N = 3 /\ db.C = 1
    /\ \E i, j \in 1..N : i # j /\ db.labels[i] = NOISE /\ db.labels[j] = 0

\* ------------------------------------------------------------------------
\* Termination and cost (checked under FairSpecLabels)
\* ------------------------------------------------------------------------
\* the expansion under way has drawn at most N points, and regionQuery has
\* been called once for each visited point and for no other
DrawsAndQueriesBounded ==
    /\ Len(db.drawn) <= N
    /\ \A i \in 1..N : db.queries[i] = IF db.visited[i] THEN 1 ELSE 0
    /\ MainLoopOver => \A i \in 1..N : db.queries[i] = 1

\* C18: dbscan returns on every input list; the expansion of one cluster
\* draws at most N points although the frontier grows under the iteration,
\* and the neighbour set of each point is computed exactly once in a run.
C18_TerminatesBounded == (<>Done) /\ [](DrawsAndQueriesBounded)

\* a finished run whose last expansion drew N points: the seed was added to
\* the frontier again by a neighbour and was drawn too
C18_Witness ==
    /\ Done /\ N = 3 /\ Len(db.drawn) = N
    /\ \A i \in 1..N : db.queries[i] = 1

\* ------------------------------------------------------------------------
\* The result of analyzeFrame (checked under Spec)
\* ------------------------------------------------------------------------
RECURSIVE SumOf(_)
SumOf(seq) == IF seq = << >> THEN 0 ELSE Head(seq) + SumOf(Tail(seq))

\* C19: in every result of analyzeFrame total is the sum of the entries of
\* clusters and every entry is at least 1; the early return and a frame with
\* no accepted candidate give total 0 and no entries.
C19_TotalIsSum ==
    /\ out.total = SumOf(out.clusters)
    /\ \A t \in 1..Len(out.clusters) : out.clusters[t] >= 1
    /\ out.total = 0 => out.clusters = << >>

\* a result with a tile of two dots
C19_Witness == Returned /\ out.total = 2 /\ out.clusters = <<2>>

\* ------------------------------------------------------------------------
\* Allocated ids and returned tiles (checked under SpecLabels)
\* ------------------------------------------------------------------------
\* the groups before  clusters.filter(arr => arr.length > 0)
Unfiltered == PushLabels(EmptyLists(db.C), db.labels, 1)

NoisePoints == {i \in 1..N : db.labels[i] = NOISE}

\* C20: every allocated cluster id has a member when the labels are grouped,
\* because the point at which it was allocated keeps it; the final filter
\* removes nothing, and the number of returned tiles is the number of
\* allocated ids plus the number of points whose final label is Noise.
C20_NoEmptyGroup ==
    /\ Len(db.seedPoint) = db.C
    /\ \A c \in 0..(db.C - 1) : db.labels[db.seedPoint[c + 1]] = c
    /\ MainLoopOver =>
         /\ \A t \in 1..Len(Unfiltered) : Len(Unfiltered[t]) >= 1
         /\ Len(Unfiltered) = db.C + Cardinality(NoisePoints)
    /\ Done =>
         /\ db.clusters = Unfiltered
         /\ Len(db.clusters) = db.C + Cardinality(NoisePoints)

\* a finished run with two allocated ids and a point left as Noise
C20_Witness ==
    /\ Done /\ db.C = 2 /\ Cardinality(NoisePoints) = 1
    /\ Len(db.clusters) = 3

====
